---- MODULE Spec2Model ----
(***************************************************************************)
(* Model of src/main.py: the HTTP endpoints that read Minecraft level      *)
(* directories (read_level, read_levels) and that control one docker       *)
(* container (create_control, read_status).                                *)
(*                                                                         *)
(* Two specifications share the module.  Spec is the level reader over an  *)
(* arbitrary content of the levels directory; SpecControl is the container *)
(* control over an arbitrary container state.  The two never interact.     *)
(*                                                                         *)
(* Python values: an Optional value is None (the empty tuple) or           *)
(* Some(x) (the one-element tuple); a dict is a function on its keys, so   *)
(* an omitted key is a key outside the DOMAIN.                             *)
(***************************************************************************)
EXTENDS Integers, Sequences, FiniteSets, TLC

VARIABLES
    levels_dir,   \* the entries of LEVELS_DIR on disk, by entry name
    container,    \* the docker runtime's state of the container MC_DOCKER_NAME
    invoked,      \* lifecycle operations the runtime has carried out, in order
    response      \* the HTTP response of the last request, with what it did:
                  \* the files it tried to open, the docker calls it made

vars == <<levels_dir, container, invoked, response>>

----------------------------------------------------------------------------
(* Bounds *)

\* longest pack list a manifest file holds
MaxPacks == 1

\* most lifecycle operations carried out in one behaviour
MaxInvoked == 3

----------------------------------------------------------------------------
(* Python values *)

None == <<>>

Some(x) == <<x>>

EmptyDict == [k \in {} |-> None]

Range(s) == {s[i] : i \in DOMAIN s}

SeqsUpTo(S, n) == UNION {[1..k -> S] : k \in 0..n}

RECURSIVE Flatten(_)
Flatten(ss) == IF ss = <<>> THEN <<>> ELSE Head(ss) \o Flatten(Tail(ss))

----------------------------------------------------------------------------
(* The levels directory *)

\* names an entry of LEVELS_DIR may have
Names == {"Survival", "Creative"}

BehaviorFile == "world_behavior_packs.json"

ResourceFile == "world_resource_packs.json"

\* pack records as they stand in a manifest file: a JSON object per pack
PackSamples ==
    { [pack_id |-> "uuid-1", version |-> <<1, 11, 9>>],
      [pack_id |-> "uuid-2", version |-> <<1, 0>>],
      [pack_id |-> "uuid-3", version |-> <<1, 2, 3, 4>>, name |-> "n",
       subpack |-> "s", can_be_redownloaded |-> TRUE] }

\* a manifest file: missing, not parseable as JSON, or a JSON array of packs
Missing == [state |-> "missing", data |-> <<>>]

InvalidJSON == [state |-> "invalid_json", data |-> <<>>]

Json(packs) == [state |-> "json", data |-> packs]

Manifests ==
    {Missing, InvalidJSON} \cup {Json(s) : s \in SeqsUpTo(PackSamples, MaxPacks)}

\* an entry of LEVELS_DIR: nothing of that name, a plain file, or a directory
Absent == [type |-> "absent", bp |-> Missing, rp |-> Missing]

PlainFile == [type |-> "file", bp |-> Missing, rp |-> Missing]

Dir(b, r) == [type |-> "dir", bp |-> b, rp |-> r]

Entries == {Absent, PlainFile} \cup {Dir(b, r) : b \in Manifests, r \in Manifests}

\* the orders in which LEVELS_DIR.iterdir() may yield the entries on disk
IterdirOrders ==
    LET present == {n \in Names : levels_dir[n].type # "absent"}
    IN  {s \in [1..Cardinality(present) -> present] :
            \A i, j \in DOMAIN s : i # j => s[i] # s[j]}

Lookup(name) == IF name \in Names THEN levels_dir[name] ELSE Absent

\* names a client may ask for: every possible entry name and one never on disk
RequestNames == Names \cup {"Nope"}

----------------------------------------------------------------------------
(* The last response *)

Detail(text, args) == [text |-> text, args |-> args]

NoResponse ==
    [op |-> "none", arg |-> "", order |-> <<>>, status_code |-> 0,
     exc |-> "none", detail |-> Detail("", <<>>), errors |-> <<>>,
     body |-> <<>>, opened |-> <<>>, calls |-> <<>>, before |-> "",
     fault |-> ""]

----------------------------------------------------------------------------
(* The pydantic models of the level reader *)

MCPackFields == {"name", "subpack", "can_be_redownloaded", "pack_id", "version"}

\* The validator of MCPack.version.  A version of another length reaches the
\* raise statement; one of length 3 falls off the end of the function, and a
\* pydantic validator's return value (here None) becomes the field's value.
VersionLengthBelowThree(ver) ==
    IF Len(ver) < 3
    THEN [raised |-> TRUE, value |-> None]
    ELSE [raised |-> FALSE, value |-> None]

check_version_format(ver) ==
    IF Len(ver) # 3
    THEN [raised |-> TRUE, value |-> None]
    ELSE [raised |-> FALSE, value |-> None]

\* The errors pydantic collects when it validates one manifest record as an
\* MCPack (BehaviorPack and ResourcePack add nothing), in field order.  The
\* raise statement of the validator builds ValidationError from one string;
\* pydantic's ValidationError takes (errors, model), so what the validator
\* raises is the TypeError of that call, which pydantic records as an error of
\* the field like any other.  The string is a fixed text either way: no value
\* of the record is interpolated.
MCPackErrors(raw) ==
    (IF "pack_id" \in DOMAIN raw
     THEN <<>>
     ELSE << [key |-> "pack_id", exc |-> "MissingError",
              msg |-> Detail("field required", <<>>)] >>)
    \o
    (IF "version" \notin DOMAIN raw
     THEN << [key |-> "version", exc |-> "MissingError",
              msg |-> Detail("field required", <<>>)] >>
     ELSE IF check_version_format(raw.version).raised
     THEN << [key |-> "version", exc |-> "TypeError",
              msg |-> Detail("Pack version requires major, minor, and patch versions.", <<>>)] >>
     ELSE <<>>)

\* The validated MCPack of a record without errors, as the dict that
\* serialization with exclude_unset gives: the keys the record set, the three
\* optional fields as given, version as the validator returned it.
MCPackDict(raw) ==
    [k \in DOMAIN raw \cap MCPackFields |->
        CASE k = "pack_id" -> raw.pack_id
          [] k = "version" -> check_version_format(raw.version).value
          [] OTHER -> Some(raw[k])]

\* Level(name=level_name): both pack fields default to None and are unset
NewLevel(level_name) ==
    [name |-> level_name, fields_set |-> {"name"},
     behavior_packs |-> None, resource_packs |-> None]

\* Assignment to a field of a pydantic model (no validate_assignment): the value
\* is stored as it is and the field counts as set.
SetField(level, field, value) ==
    [level EXCEPT ![field] = Some(value), !.fields_set = @ \cup {field}]

----------------------------------------------------------------------------
(* read_level, the function *)

Returned(value, opened) ==
    [exc |-> "none", status_code |-> 200, detail |-> Detail("", <<>>),
     value |-> value, opened |-> opened]

Raised(exc, status_code, detail, opened) ==
    [exc |-> exc, status_code |-> status_code, detail |-> detail,
     value |-> NewLevel(""), opened |-> opened]

\* Path.exists() in the place of Path.is_dir(): a plain file passes
path_exists(level_name) == Lookup(level_name).type # "absent"

\* (LEVELS_DIR / level_name).is_dir()
is_dir(level_name) == Lookup(level_name).type = "dir"

read_level(level_name) ==
    LET entry == Lookup(level_name)
        level0 == NewLevel(level_name)
        level1 == IF entry.bp.state = "json"
                  THEN SetField(level0, "behavior_packs", entry.bp.data)
                  ELSE level0
        level2 == IF entry.rp.state = "json"
                  THEN SetField(level1, "resource_packs", entry.rp.data)
                  ELSE level1
    IN  IF ~is_dir(level_name)
        THEN Raised("HTTPException", 404,
                    Detail("That level was not flippin found!", <<>>), <<>>)
        ELSE IF entry.bp.state = "invalid_json"
        THEN Raised("JSONDecodeError", 500, Detail("", <<>>), <<BehaviorFile>>)
        ELSE IF entry.rp.state = "invalid_json"
        THEN Raised("JSONDecodeError", 500, Detail("", <<>>),
                    <<BehaviorFile, ResourceFile>>)
        ELSE Returned(level2, <<BehaviorFile, ResourceFile>>)

----------------------------------------------------------------------------
(* The response models: what FastAPI does with a handler's return value.    *)
(* A route declared with response_model validates the returned object       *)
(* against that model and answers 500 when the validation fails; this is    *)
(* the only place where the pack records of a manifest are validated, since *)
(* read_level assigns the parsed JSON to the Level as it is.                *)

LevelFields == {"name", "behavior_packs", "resource_packs"}

PackListFields == <<"behavior_packs", "resource_packs">>

\* response_model_exclude_unset of the two level routes
exclude_unset_off == FALSE

response_model_exclude_unset == TRUE

\* The errors of validating one returned Level against the response model, in
\* field order and list order; index is the Level's place in a returned list.
LevelErrors(level, index) ==
    Flatten([f \in DOMAIN PackListFields |->
        LET field == PackListFields[f]
        IN  IF field \in level.fields_set /\ level[field] # None
            THEN LET packs == level[field][1]
                 IN  Flatten([i \in DOMAIN packs |->
                        LET errs == MCPackErrors(packs[i])
                        IN  [e \in DOMAIN errs |->
                                [level |-> index, field |-> field, item |-> i,
                                 key |-> errs[e].key, exc |-> errs[e].exc,
                                 msg |-> errs[e].msg]]])
            ELSE <<>>])

\* The JSON object of a valid Level: with exclude_unset, only the fields set.
LevelDict(level) ==
    LET keys == IF response_model_exclude_unset THEN level.fields_set
                ELSE LevelFields
    IN  [k \in keys |->
            IF k = "name" THEN level.name
            ELSE IF level[k] = None THEN None
            ELSE Some([i \in DOMAIN level[k][1] |-> MCPackDict(level[k][1][i])])]

Opened(level_name, result) ==
    [i \in DOMAIN result.opened |-> [level |-> level_name, file |-> result.opened[i]]]

\* GET /level/{level_name}: read_level, then its result through Level
LevelResponse(level_name) ==
    LET r == read_level(level_name)
        errors == IF r.exc = "none" THEN LevelErrors(r.value, 0) ELSE <<>>
        base == [NoResponse EXCEPT !.op = "read_level", !.arg = level_name,
                                   !.order = <<level_name>>,
                                   !.opened = Opened(level_name, r)]
    IN  IF r.exc # "none"
        THEN [base EXCEPT !.status_code = r.status_code, !.exc = r.exc,
                          !.detail = r.detail]
        ELSE IF errors # <<>>
        THEN [base EXCEPT !.status_code = 500, !.exc = "ValidationError",
                          !.errors = errors]
        ELSE [base EXCEPT !.status_code = 200, !.body = <<LevelDict(r.value)>>]

\* a listing that leaves out the entries whose read or validation fails
LevelsSkippingFailures(order) ==
    LET dirs == {i \in DOMAIN order : is_dir(order[i])}
        r == [i \in DOMAIN order |-> read_level(order[i])]
        ok == {i \in dirs : r[i].exc = "none" /\ LevelErrors(r[i].value, i) = <<>>}
    IN  [NoResponse EXCEPT !.op = "read_levels", !.order = order,
                           !.status_code = 200,
                           !.body = [i \in 1..Cardinality(ok) |->
                              LevelDict(r[CHOOSE j \in ok :
                                  Cardinality({k \in ok : k < j}) = i - 1].value)]]

\* GET /levels/: read_level on every entry iterdir() yields, in that order,
\* the first exception ending the loop; then the list through list[Level].
LevelsResponse(order) ==
    LET r == [i \in DOMAIN order |-> read_level(order[i])]
        raising == {i \in DOMAIN order : r[i].exc # "none"}
        first == CHOOSE i \in raising : \A j \in raising : i <= j
        last == IF raising = {} THEN Len(order) ELSE first
        errors == Flatten([i \in DOMAIN order |-> LevelErrors(r[i].value, i)])
        base == [NoResponse EXCEPT !.op = "read_levels", !.order = order,
                    !.opened = Flatten([i \in 1..last |-> Opened(order[i], r[i])])]
    IN  IF raising # {}
        THEN [base EXCEPT !.status_code = r[first].status_code,
                          !.exc = r[first].exc, !.detail = r[first].detail]
        ELSE IF errors # <<>>
        THEN [base EXCEPT !.status_code = 500, !.exc = "ValidationError",
                          !.errors = errors]
        ELSE [base EXCEPT !.status_code = 200,
                          !.body = [i \in DOMAIN order |-> LevelDict(r[i].value)]]

----------------------------------------------------------------------------
(* The level reader's requests *)

GetLevel(level_name) ==
    /\ response' = LevelResponse(level_name)
    /\ UNCHANGED <<levels_dir, container, invoked>>

GetLevels(order) ==
    /\ response' = LevelsResponse(order)
    /\ UNCHANGED <<levels_dir, container, invoked>>

Init ==
    /\ levels_dir \in [Names -> Entries]
    /\ container = "absent"
    /\ invoked = <<>>
    /\ response = NoResponse

Next ==
    \/ \E level_name \in RequestNames : GetLevel(level_name)
    \/ \E order \in IterdirOrders : GetLevels(order)

Spec == Init /\ [][Next]_vars

----------------------------------------------------------------------------
(* Properties of the level reader, checked under Spec *)

\* what is on disk, whatever the code makes of it
OnDisk(name) == Lookup(name)

IsDirectory(name) == OnDisk(name).type = "dir"

ManifestOf(entry, field) == IF field = "behavior_packs" THEN entry.bp ELSE entry.rp

PackFieldNames == {"behavior_packs", "resource_packs"}

BadVersion(raw) == "version" \in DOMAIN raw /\ Len(raw.version) # 3

\* the manifest records of an entry whose version has a length other than 3,
\* each with the field and position it stands at
BadVersionRecords(entry) ==
    {x \in [field : PackFieldNames, item : 1..MaxPacks] :
        /\ x.item \in DOMAIN ManifestOf(entry, x.field).data
        /\ BadVersion(ManifestOf(entry, x.field).data[x.item])}

\* the values a response's messages interpolate
NamedIn(resp) ==
    Range(resp.detail.args) \cup UNION {Range(resp.errors[e].msg.args) : e \in DOMAIN resp.errors}

ManifestValid(m) ==
    /\ m.state # "invalid_json"
    /\ \A i \in DOMAIN m.data : ~BadVersion(m.data[i])

\* C1: after GET /level/{name} on an existing directory, a successful response
\* carries the key of a pack field exactly when that manifest file exists; a
\* missing file omits the key (no null, no empty list), a file holding an empty
\* array gives the key with an empty list; and the request fails only when one
\* of the manifests is unparseable or holds an invalid record.
C1_ManifestPresence ==
    (response.op = "read_level" /\ IsDirectory(response.arg)) =>
        LET entry == OnDisk(response.arg)
        IN  /\ response.status_code = 200 =>
                \A f \in PackFieldNames :
                    LET m == ManifestOf(entry, f)
                        level == response.body[1]
                    IN  /\ (f \in DOMAIN level) <=> (m.state # "missing")
                        /\ m = Json(<<>>) => (f \in DOMAIN level /\ level[f] = Some(<<>>))
                        /\ (f \in DOMAIN level /\ level[f] = Some(<<>>)) => m = Json(<<>>)
            /\ response.status_code = 200 <=>
                    (ManifestValid(entry.bp) /\ ManifestValid(entry.rp))

\* C1 witness: a directory with an empty-array behavior manifest and no resource
\* manifest has been read: behavior_packs is the empty list, resource_packs is omitted
C1_Witness ==
    /\ response.op = "read_level"
    /\ IsDirectory(response.arg)
    /\ OnDisk(response.arg).bp = Json(<<>>)
    /\ OnDisk(response.arg).rp = Missing
    /\ response.status_code = 200
    /\ DOMAIN response.body[1] = {"name", "behavior_packs"}
    /\ response.body[1].behavior_packs = Some(<<>>)

\* C2 as stated: a manifest record with a version of length other than 3 makes
\* GET /level/{name} fail with a ValidationError that names the pack's id.
C2_Original ==
    (response.op = "read_level" /\ IsDirectory(response.arg)) =>
        \A x \in BadVersionRecords(OnDisk(response.arg)) :
            /\ response.exc = "ValidationError"
            /\ response.body = <<>>
            /\ ManifestOf(OnDisk(response.arg), x.field).data[x.item].pack_id
                   \in NamedIn(response)

\* C2 amended: a manifest record with a version of length other than 3 makes
\* GET /level/{name} fail with status 500 and no body: with a JSON decode error
\* when one of the two manifests is unparseable, otherwise with a response
\* ValidationError that has an error for the record's field, position and
\* version key, and whose messages name no pack id.
C2_BadVersionFails ==
    (response.op = "read_level" /\ IsDirectory(response.arg)) =>
        LET entry == OnDisk(response.arg)
            unparseable == entry.bp.state = "invalid_json" \/ entry.rp.state = "invalid_json"
        IN  \A x \in BadVersionRecords(entry) :
                /\ response.status_code = 500
                /\ response.body = <<>>
                /\ unparseable => response.exc = "JSONDecodeError"
                /\ ~unparseable =>
                      /\ response.exc = "ValidationError"
                      /\ \E e \in DOMAIN response.errors :
                            /\ response.errors[e].field = x.field
                            /\ response.errors[e].item = x.item
                            /\ response.errors[e].key = "version"
                      /\ NamedIn(response) = {}

\* C2 witness: a directory whose manifest holds a four-element version has been
\* read and the response is the ValidationError
C2_Witness ==
    /\ response.op = "read_level"
    /\ IsDirectory(response.arg)
    /\ \E x \in BadVersionRecords(OnDisk(response.arg)) :
          Len(ManifestOf(OnDisk(response.arg), x.field).data[x.item].version) = 4
    /\ response.exc = "ValidationError"
    /\ response.status_code = 500

\* C3 as stated: every name the enumeration behind GET /levels/ yields is a
\* directory that GET /level/{name} accepts, so neither answers 404.
C3_EnumerationConsistent ==
    response.op = "read_levels" =>
        /\ response.status_code # 404
        /\ \A i \in DOMAIN response.order :
              /\ IsDirectory(response.order[i])
              /\ LevelResponse(response.order[i]).status_code # 404

\* C4: GET /level/{name} for a name that is no directory answers 404 with an
\* HTTPException, has opened no manifest file and returns no body.
C4_NotFound ==
    (response.op = "read_level" /\ ~IsDirectory(response.arg)) =>
        /\ response.status_code = 404
        /\ response.exc = "HTTPException"
        /\ response.opened = <<>>
        /\ response.body = <<>>

\* C4 witness: a plain file of the asked name exists and the answer was 404
C4_Witness ==
    /\ response.op = "read_level"
    /\ OnDisk(response.arg).type = "file"
    /\ response.status_code = 404

\* C5 as stated: a record with an id, version [1,11,9] and no optional field
\* comes back from the Pack model with that id, that version and nothing else.
C5_RoundTrip ==
    (response.op = "read_level" /\ response.status_code = 200) =>
        \A f \in PackFieldNames :
            LET m == ManifestOf(OnDisk(response.arg), f)
            IN  \A i \in DOMAIN m.data :
                    m.data[i] = [pack_id |-> "uuid-1", version |-> <<1, 11, 9>>] =>
                        response.body[1][f][1][i] =
                            [pack_id |-> "uuid-1", version |-> Some(<<1, 11, 9>>)]

\* GET /level/{name} for every name of a listing, in the listing's order
SingleResponses(order) == [i \in DOMAIN order |-> LevelResponse(order[i])]

Least(S) == CHOOSE i \in S : \A j \in S : i <= j

\* the errors of a single level's ValidationError, as a listing places them
AtIndex(errors, index) == [e \in DOMAIN errors |-> [errors[e] EXCEPT !.level = index]]

\* C10 as stated: GET /levels/ returns the GET /level/{name} results of the
\* enumerated names in order, and when one of them fails it fails with the
\* error of the first failing name and returns no list.  Stated here for the
\* listings whose entries are all directories.
C10_Original ==
    (response.op = "read_levels" /\ \A i \in DOMAIN response.order : IsDirectory(response.order[i])) =>
        LET single == SingleResponses(response.order)
            failing == {i \in DOMAIN single : single[i].status_code # 200}
        IN  IF failing = {}
            THEN /\ response.status_code = 200
                 /\ response.body = [i \in DOMAIN single |-> single[i].body[1]]
            ELSE /\ response.body = <<>>
                 /\ response.status_code = single[Least(failing)].status_code
                 /\ response.exc = single[Least(failing)].exc
                 /\ response.detail = single[Least(failing)].detail
                 /\ response.errors = AtIndex(single[Least(failing)].errors, Least(failing))

\* C10 amended: GET /levels/ returns the GET /level/{name} results of the
\* enumerated names in order; when one of them fails the listing fails and
\* returns no list: with the error of the first name in order whose read itself
\* raises (404 for an entry that is no directory, a JSON decode error), and,
\* when no read raises, with one response ValidationError that holds the
\* errors of every invalid level in order.
C10_ListingOrError ==
    response.op = "read_levels" =>
        LET single == SingleResponses(response.order)
            failing == {i \in DOMAIN single : single[i].status_code # 200}
            raising == {i \in failing : single[i].exc # "ValidationError"}
        IN  /\ failing = {} =>
                /\ response.status_code = 200
                /\ response.body = [i \in DOMAIN single |-> single[i].body[1]]
            /\ failing # {} =>
                /\ response.body = <<>>
                /\ response.status_code # 200
            /\ raising # {} =>
                /\ response.status_code = single[Least(raising)].status_code
                /\ response.exc = single[Least(raising)].exc
                /\ response.detail = single[Least(raising)].detail
                /\ response.errors = <<>>
            /\ (failing # {} /\ raising = {}) =>
                /\ response.status_code = 500
                /\ response.exc = "ValidationError"
                /\ response.errors =
                      Flatten([i \in DOMAIN single |-> AtIndex(single[i].errors, i)])

\* C10 witness: a listing of two entries has failed with the JSON decode error
\* of the second although the first, read alone, fails validation
C10_Witness ==
    /\ response.op = "read_levels"
    /\ Len(response.order) = 2
    /\ LevelResponse(response.order[1]).exc = "ValidationError"
    /\ LevelResponse(response.order[2]).exc = "JSONDecodeError"
    /\ response.exc = "JSONDecodeError"

----------------------------------------------------------------------------
(* The container control *)

MC_DOCKER_NAME == "mc-server"

ContainerAction == {"start", "stop", "restart"}

ContainerStatusValue == {"running", "exited"}

\* the statuses the docker runtime reports for a container that exists
RuntimeStatuses == {"running", "exited", "paused"}

\* the action strings a client may post: the enumeration and one outside it
RawActions == ContainerAction \cup {"status"}

\* which docker call, if any, the runtime answers with an APIError
Faults == {"none", "get", "call"}

\* docker.containers.get(MC_DOCKER_NAME): the exception it raises
ContainersGet(fault) ==
    IF fault = "get" THEN "APIError"
    ELSE IF container = "absent" THEN "NotFound"
    ELSE "none"

\* container.start(), .stop(), .restart() in the docker runtime: the exception
\* raised and the status the container has afterwards.  A paused container
\* cannot be started; stopping an exited one is no error.
RuntimeCall(method, fault) ==
    IF fault = "call"
    THEN [exc |-> "APIError", status |-> container]
    ELSE CASE method = "start" ->
                 IF container = "paused"
                 THEN [exc |-> "APIError", status |-> container]
                 ELSE [exc |-> "none", status |-> "running"]
           [] method = "stop" -> [exc |-> "none", status |-> "exited"]
           [] method = "restart" -> [exc |-> "none", status |-> "running"]

\* the except clauses with APIError first: NotFound is an APIError and never
\* reaches its own clause
APIErrorClauseFirst(exc) ==
    [status_code |-> 500,
     detail |-> Detail("There was an error from the Docker API!", <<>>)]

\* the except clauses of create_control and read_status, for a docker exception
ExceptClauses(exc) ==
    IF exc = "NotFound"
    THEN [status_code |-> 404,
          detail |-> Detail("That container ({}) was not flippin found!",
                            <<MC_DOCKER_NAME>>)]
    ELSE [status_code |-> 500,
          detail |-> Detail("There was an error from the Docker API!", <<>>)]

\* a match statement that lost its restart case
MatchWithoutRestart(action) ==
    CASE action = "start" -> "start"
      [] action = "stop" -> "stop"
      [] OTHER -> "unimplemented"

\* a match statement whose stop case calls restart
MatchStopCallsRestart(action) ==
    CASE action = "start" -> "start"
      [] action = "stop" -> "restart"
      [] action = "restart" -> "restart"
      [] OTHER -> "unimplemented"

\* the match statement of create_control: the container method each action calls
MatchAction(action) ==
    CASE action = "start" -> "start"
      [] action = "stop" -> "stop"
      [] action = "restart" -> "restart"
      [] OTHER -> "unimplemented"

\* POST /control/: the response, the container's status afterwards and the
\* method the runtime carried out
create_control(raw_action, fault) ==
    LET base == [NoResponse EXCEPT !.op = "create_control", !.arg = raw_action,
                                   !.before = container, !.fault = fault]
        got == ContainersGet(fault)
        method == MatchAction(raw_action)
        call == RuntimeCall(method, fault)
        failed(exc, calls) ==
            [base EXCEPT !.exc = "HTTPException", !.calls = calls,
                         !.status_code = ExceptClauses(exc).status_code,
                         !.detail = ExceptClauses(exc).detail]
    IN  IF raw_action \notin ContainerAction
        THEN [response |-> [base EXCEPT !.status_code = 422,
                                        !.exc = "RequestValidationError"],
              status |-> container, carried |-> <<>>]
        ELSE IF got # "none"
        THEN [response |-> failed(got, <<"get">>), status |-> container,
              carried |-> <<>>]
        ELSE IF method = "unimplemented"
        THEN [response |-> [base EXCEPT !.status_code = 500, !.exc = "HTTPException",
                               !.calls = <<"get">>,
                               !.detail = Detail("Whoops! The developer forgot to implement that!", <<>>)],
              status |-> container, carried |-> <<>>]
        ELSE IF call.exc # "none"
        THEN [response |-> failed(call.exc, <<"get", method>>), status |-> call.status,
              carried |-> <<>>]
        ELSE [response |-> [base EXCEPT !.status_code = 200, !.calls = <<"get", method>>,
                               !.body = << [action |-> raw_action,
                                            message |-> Some("success")] >>],
              status |-> call.status, carried |-> <<method>>]

\* ContainerStatus(...) as pydantic constructs a model: BaseModel.__init__ takes
\* keyword arguments only, and validates status against ContainerStatusValue
ContainerStatus(positional, keywords) ==
    IF positional # <<>> THEN "TypeError"
    ELSE IF "status" \notin DOMAIN keywords THEN "ValidationError"
    ELSE IF keywords.status \notin ContainerStatusValue THEN "ValidationError"
    ELSE "none"

\* GET /status/
read_status(fault) ==
    LET base == [NoResponse EXCEPT !.op = "read_status", !.before = container,
                                   !.fault = fault, !.calls = <<"get">>]
        got == ContainersGet(fault)
        container_status == container
        built == ContainerStatus(<<container_status>>, EmptyDict)
    IN  IF got # "none"
        THEN [base EXCEPT !.exc = "HTTPException",
                          !.status_code = ExceptClauses(got).status_code,
                          !.detail = ExceptClauses(got).detail]
        ELSE IF built = "none"
        THEN [base EXCEPT !.status_code = 200,
                          !.body = << [status |-> container_status] >>]
        ELSE IF built = "ValidationError"
        THEN [base EXCEPT !.status_code = 500, !.exc = "HTTPException",
                          !.detail = Detail("Ack! The container returned and invalid status: {}",
                                            <<container_status>>)]
        ELSE [base EXCEPT !.status_code = 500, !.exc = built]

CreateControl(raw_action, fault) ==
    /\ Len(invoked) < MaxInvoked
    /\ LET r == create_control(raw_action, fault)
       IN  /\ response' = r.response
           /\ container' = r.status
           /\ invoked' = invoked \o r.carried
    /\ UNCHANGED levels_dir

ReadStatus(fault) ==
    /\ response' = read_status(fault)
    /\ UNCHANGED <<levels_dir, container, invoked>>

InitControl ==
    /\ levels_dir = [n \in Names |-> Absent]
    /\ container \in RuntimeStatuses \cup {"absent"}
    /\ invoked = <<>>
    /\ response = NoResponse

NextControl ==
    \/ \E raw_action \in RawActions, fault \in Faults : CreateControl(raw_action, fault)
    \/ \E fault \in Faults \ {"call"} : ReadStatus(fault)

SpecControl == InitControl /\ [][NextControl]_vars

----------------------------------------------------------------------------
(* Properties of the container control, checked under SpecControl *)

\* the request reached a container that exists, and the runtime raised nothing
\* when the container was looked up
Reached == response.before \in RuntimeStatuses /\ response.fault # "get"

\* C6 as stated: GET /status/ on an existing container returns the status the
\* runtime reports when that is running or exited, and fails with status 500
\* and no body for any other status.
C6_StatusReported ==
    (response.op = "read_status" /\ Reached) =>
        IF response.before \in ContainerStatusValue
        THEN /\ response.status_code = 200
             /\ response.body = << [status |-> response.before] >>
        ELSE /\ response.status_code = 500
             /\ response.body = <<>>

\* C7 as stated: a successful POST /control/ returns the container's resulting
\* status with a message: exited after stop, running after start or restart.
C7_Original ==
    (response.op = "create_control" /\ response.status_code = 200) =>
        /\ "message" \in DOMAIN response.body[1]
        /\ "status" \in DOMAIN response.body[1]
        /\ response.body[1].status = container
        /\ response.arg = "stop" => container = "exited"
        /\ response.arg \in {"start", "restart"} => container = "running"

\* C7 amended: a successful POST /control/ returns the requested action echoed
\* back with the message "success", and no status; the runtime has carried out
\* the action and the container is exited after stop, running after start or
\* restart.
C7_ActionEchoed ==
    (response.op = "create_control" /\ response.status_code = 200) =>
        /\ response.body = << [action |-> response.arg, message |-> Some("success")] >>
        /\ invoked # <<>> /\ invoked[Len(invoked)] = response.arg
        /\ response.arg = "stop" => container = "exited"
        /\ response.arg \in {"start", "restart"} => container = "running"

\* C7 witness: stop has been applied to a running container with success
C7_Witness ==
    /\ response.op = "create_control"
    /\ response.arg = "stop"
    /\ response.before = "running"
    /\ response.status_code = 200
    /\ container = "exited"

\* C8: for every action of the enumeration, in every container state earlier
\* actions lead to, POST /control/ calls the container method of the same name
\* and no other once it has the container, and never answers with the
\* "forgot to implement" error.
C8_DispatchTotal ==
    (response.op = "create_control" /\ response.arg \in ContainerAction) =>
        /\ response.detail.text # "Whoops! The developer forgot to implement that!"
        /\ response.calls \in {<<"get">>, <<"get", response.arg>>}
        /\ Reached => response.calls = <<"get", response.arg>>
        /\ response.status_code = 200 => response.calls = <<"get", response.arg>>

\* C8 witness: stop has been applied again to a container that an earlier stop
\* left exited, and the stop method was called
C8_Witness ==
    /\ response.op = "create_control"
    /\ response.arg = "stop"
    /\ response.before = "exited"
    /\ Len(invoked) >= 2
    /\ invoked[Len(invoked) - 1] = "stop"
    /\ response.calls = <<"get", "stop">>

\* C9: for GET /status/ and POST /control/ alike, a container that does not
\* exist gives 404 with no lifecycle call and no change; an APIError of the
\* runtime gives 500 with the Docker API message; neither gives a body.
C9_NotFoundAndAdapterErrors ==
    (response.op \in {"read_status", "create_control"} /\ response.status_code # 422) =>
        /\ (response.before = "absent" /\ response.fault # "get") =>
              /\ response.status_code = 404
              /\ response.exc = "HTTPException"
              /\ response.detail.args = <<MC_DOCKER_NAME>>
              /\ response.calls = <<"get">>
              /\ response.body = <<>>
              /\ container = "absent"
        /\ (response.fault = "get" \/ (response.fault = "call" /\ response.before # "absent")) =>
              /\ response.status_code = 500
              /\ response.detail.text = "There was an error from the Docker API!"
              /\ response.body = <<>>
              /\ container = response.before
        /\ response.status_code = 404 => response.before = "absent"

\* C9 witness: both routes have a 404 case; here POST /control/ met no container
C9_Witness ==
    /\ response.op = "create_control"
    /\ response.before = "absent"
    /\ response.fault = "none"
    /\ response.status_code = 404

====
